---- MODULE Spec2Model ----
(***************************************************************************)
(* A model of paper_search_mcp: the SearXNG search adapter                 *)
(* (academic_platforms/searxng.py), the document processor                 *)
(* (document_processor.py) and the knowledge store (knowledge.py).         *)
(*                                                                         *)
(* Text is a sequence of one-character strings, so that slicing, lower()   *)
(* and the `in` substring test are computed as Python computes them.       *)
(* A JSON value is a record [t, s, n]: t is its type tag, s its text when  *)
(* it is a string and n its value when it is a number.                     *)
(***************************************************************************)
EXTENDS Integers, Sequences, FiniteSets, TLC

VARIABLES
    \* -- search adapter --
    backend,      \* what the SearXNG instance answers to GET /search
    max_results,  \* the max_results argument of search
    call,         \* the adapter call made last: [op, paper_id, save_path]
    outcome,      \* "none", "returned" or "raised"
    error,        \* the exception raised ("" when none)
    papers,       \* the list search returned
    requests,     \* network requests the last call issued
    files,        \* files the last call wrote
    logged,       \* lines the last call printed
    \* -- document processor --
    pdf,          \* the file at pdf_path and what the two PDF libraries do with it
    doc_call,     \* "none" or "process_pdf"
    doc_outcome,  \* "none", "returned" or "raised"
    doc_error,    \* the exception raised ("" when none)
    doc_result,   \* the dictionary returned
    \* -- knowledge store --
    db,           \* self.db: 0 for None, else the index of the handle in handles
    handles,      \* every Surreal handle created, with the calls made on it
    concept_tb,   \* the rows of table concept
    paper_tb,     \* the rows of table paper
    relates_to,   \* the RELATE statements executed: how many per (paper_id, concept_name, strength)
    kcall,        \* the store call made last
    kret,         \* what it returned or raised
    ret_rows,     \* the rows it returned
    arg,          \* the caller's paper_data mapping, as it is after store_paper
    arg_before,   \* the same mapping as it was when passed
    adds,         \* per concept name, the add_concept calls made with it
    returned,     \* per concept name, the ids add_concept returned for it
    task,         \* per caller, the coroutine it runs on the store and where it waits
    issued,       \* the data query issued last: by whom, on which handle, in what state
    ncalls        \* the method calls the two callers have made

searchVars == <<backend, max_results, call, outcome, error, papers, requests, files, logged>>
docVars == <<pdf, doc_call, doc_outcome, doc_error, doc_result>>

storeVars == <<db, handles, concept_tb, paper_tb, relates_to, kcall, kret, ret_rows,
               arg, arg_before, adds, returned>>

taskVars == <<task, issued, ncalls>>

\* The tables and what the callers keep of their calls
dataVars == <<concept_tb, paper_tb, relates_to, arg, arg_before, adds, returned>>

\* The record of the last serial call
callVars == <<kcall, kret, ret_rows>>

vars == <<searchVars, docVars, storeVars, taskVars>>

-----------------------------------------------------------------------------
(* Bounds of the model *)

MaxItems == 3
MaxUrlParts == 2
MaxResultsArg == 4
MaxPages == 2
MaxHandles == 2
MaxCalls == 3
MaxAdds == 3
MaxEdges == 6
MaxLimit == 2

(* Program constants *)

AbstractLimit == 500

-----------------------------------------------------------------------------
(* Text *)

Min(a, b) == IF a < b THEN a ELSE b
Max(a, b) == IF a > b THEN a ELSE b

UpperChars == <<"A", "R", "X", "I", "V", "O", "G", "P", "D", "F">>
LowerChars == <<"a", "r", "x", "i", "v", "o", "g", "p", "d", "f">>

\* str.lower() on one character
LowerChar(c) ==
    IF \E k \in 1..Len(UpperChars) : UpperChars[k] = c
    THEN LowerChars[CHOOSE k \in 1..Len(UpperChars) : UpperChars[k] = c]
    ELSE c

\* str.lower()
Lower(s) == [k \in 1..Len(s) |-> LowerChar(s[k])]

\* sub in s
Contains(sub, s) ==
    \E k \in 1..(Len(s) - Len(sub) + 1) : SubSeq(s, k, k + Len(sub) - 1) = sub

\* seq[:n], for n of either sign
PySliceDropsTail(seq, n) ==
    IF n >= 0 THEN SubSeq(seq, 1, Min(Len(seq), n + 1))
    ELSE SubSeq(seq, 1, Max(0, Len(seq) + n))

PySlice(seq, n) ==
    IF n >= 0 THEN SubSeq(seq, 1, Min(Len(seq), n))
    ELSE SubSeq(seq, 1, Max(0, Len(seq) + n))

Repeat(c, n) == [k \in 1..n |-> c]

RECURSIVE Concat(_)
Concat(parts) ==
    IF parts = <<>> THEN <<>> ELSE Head(parts) \o Concat(Tail(parts))

SeqsUpTo(S, n) == UNION {[1..k -> S] : k \in 0..n}

S_pdf == <<"p", "d", "f">>
S_arxiv == <<"a", "r", "x", "i", "v", ".", "o", "r", "g">>

-----------------------------------------------------------------------------
(* JSON values and backend items *)

Str(s) == [t |-> "str", s |-> s, n |-> 0]
Null == [t |-> "null", s |-> <<>>, n |-> 0]
Num(n) == [t |-> "num", s |-> <<>>, n |-> n]

\* truthiness of a JSON value in Python
Truthy(v) ==
    CASE v.t = "str" -> v.s # <<>>
      [] v.t = "num" -> v.n # 0
      [] OTHER -> FALSE

\* A result item: obj says whether it is a JSON object; has is the set of keys
\* present in it; title, url, content, author are their values (Null when absent).
Item(obj, has, title, url, content, author) ==
    [obj |-> obj, has |-> has, title |-> title, url |-> url,
     content |-> content, author |-> author]

\* item.get(key, default)
Get(item, key, default) ==
    IF key \in item.has
    THEN CASE key = "title" -> item.title
           [] key = "url" -> item.url
           [] key = "content" -> item.content
           [] OTHER -> item.author
    ELSE default

S_Untitled == <<"U", "n", "t", "i", "t", "l", "e", "d">>
S_Unknown == <<"U", "n", "k", "n", "o", "w", "n">>

-----------------------------------------------------------------------------
(* SearXNGSearcher.search: the mapping of one result item to a Paper *)

\* pdf_url = url if 'pdf' in url.lower() or 'arxiv.org' in url, else ''
PdfUrlAnyCase(url) ==
    IF Contains(S_pdf, Lower(url)) \/ Contains(S_arxiv, Lower(url)) THEN url ELSE <<>>

PdfUrl(url) ==
    IF Contains(S_pdf, Lower(url)) \/ Contains(S_arxiv, url) THEN url ELSE <<>>

\* content[:500] if content else ''
Abstract(content) ==
    IF Truthy(content) THEN PySlice(content.s, AbstractLimit) ELSE <<>>

\* The exception the body of the loop raises on this item, "" when none:
\* item.get on a value that is no dict, url.lower() on a value that is no
\* str, content[:500] on a number other than 0.
MapError(item) ==
    IF ~item.obj THEN "AttributeError"
    ELSE IF Get(item, "url", Str(<<>>)).t # "str" THEN "AttributeError"
    ELSE IF Get(item, "content", Str(<<>>)).t = "num"
            /\ Truthy(Get(item, "content", Str(<<>>))) THEN "TypeError"
    ELSE ""

\* The Paper built from item at position idx of the truncated list.  Of its
\* fields, published_date (the clock), keywords and extra are left out.
MapItem(item, idx) ==
    LET url == Get(item, "url", Str(<<>>)).s
        content == Get(item, "content", Str(<<>>))
    IN  [paper_id |-> [source |-> "searxng", idx |-> idx, hash_of |-> url],
         title |-> Get(item, "title", Str(S_Untitled)),
         authors |-> <<Get(item, "author", Str(S_Unknown))>>,
         abstract |-> Abstract(content),
         doi |-> <<>>,
         pdf_url |-> PdfUrl(url),
         url |-> url,
         source |-> "searxng"]

\* for idx, item in enumerate(results): try: papers.append(...) except: continue
RECURSIVE MapFromAborting(_, _)
MapFromAborting(results, i) ==
    IF i > Len(results) \/ MapError(results[i]) # "" THEN <<>>
    ELSE <<MapItem(results[i], i - 1)>> \o MapFromAborting(results, i + 1)

RECURSIVE MapFrom(_, _)
MapFrom(results, i) ==
    IF i > Len(results) THEN <<>>
    ELSE (IF MapError(results[i]) # "" THEN <<>>
          ELSE <<MapItem(results[i], i - 1)>>) \o MapFrom(results, i + 1)

RECURSIVE SkippedFrom(_, _)
SkippedFrom(results, i) ==
    IF i > Len(results) THEN 0
    ELSE (IF MapError(results[i]) # "" THEN 1 ELSE 0) + SkippedFrom(results, i + 1)

-----------------------------------------------------------------------------
(* The backend's answers *)

HTTPErrorKinds == {"connect_error", "timeout", "http_status"}
UndecodableKinds == {"bad_json", "not_object"}

AllKeys == {"title", "url", "content", "author"}

S_A == <<"A">>
S_x == <<"x">>

UrlTokens ==
    {S_arxiv, <<"A", "R", "X", "I", "V", ".", "O", "R", "G">>,
     <<"P", "D", "F">>, <<"p">>, <<"d", "f">>, <<"x", "/">>}

Urls == {Concat(parts) : parts \in SeqsUpTo(UrlTokens, MaxUrlParts)}

ContentLengths ==
    {0, 1, AbstractLimit - 1, AbstractLimit, AbstractLimit + 1, AbstractLimit + 100}

\* Items that differ in one field only: every url, every length of content.
FieldItems ==
    {Item(TRUE, AllKeys, Str(S_A), Str(u), Str(S_x), Str(S_A)) : u \in Urls}
    \cup {Item(TRUE, AllKeys, Str(S_A), Str(u), Str(Repeat("x", n)), Str(S_A)) :
            u \in {S_arxiv, S_x}, n \in ContentLengths}
    \cup {Item(TRUE, AllKeys, Str(S_A), Str(S_x), c, Str(S_A)) : c \in {Null, Num(0)}}

EmptyItem == Item(TRUE, {}, Null, Null, Null, Null)
NonObjectItem == Item(FALSE, {}, Null, Null, Null, Null)

\* Items a list of several is made of: well-formed ones, the object with no
\* keys, a value that is no object, a null url, a numeric content.
ItemPool ==
    {Item(TRUE, AllKeys, Str(S_A), Str(S_arxiv), Str(S_x), Str(S_A)),
     Item(TRUE, {"title", "url"}, Str(S_x), Str(S_x), Null, Null),
     EmptyItem,
     NonObjectItem,
     Item(TRUE, AllKeys, Str(S_A), Null, Str(S_x), Str(S_A)),
     Item(TRUE, AllKeys, Str(S_A), Str(S_x), Num(7), Str(S_A))}

Response(kind, has_results, results) ==
    [kind |-> kind, has_results |-> has_results, results |-> results]

Responses ==
    {Response(k, FALSE, <<>>) : k \in HTTPErrorKinds \cup UndecodableKinds \cup {"ok"}}
    \cup {Response("ok", TRUE, r) : r \in SeqsUpTo(ItemPool, MaxItems)}
    \cup {Response("ok", TRUE, <<it>>) : it \in FieldItems}

PaperIds == {"searxng_0_1", ""}
SavePaths == {"./downloads", "/tmp/out"}

NoCall == [op |-> "none", paper_id |-> "", save_path |-> ""]

-----------------------------------------------------------------------------
(* The search adapter's operations *)

InitSearch ==
    /\ backend \in Responses
    /\ max_results \in (0 - 1)..MaxResultsArg
    /\ call = NoCall
    /\ outcome = "none"
    /\ error = ""
    /\ papers = <<>>
    /\ requests = 0
    /\ files = {}
    /\ logged = 0

\* data.get('results', [])[:max_results]
Results(data, n) ==
    PySlice(IF data.has_results THEN data.results ELSE <<>>, n)

Search ==
    /\ call' = [op |-> "search", paper_id |-> "", save_path |-> ""]
    /\ requests' = 1
    /\ files' = {}
    /\ IF backend.kind \in HTTPErrorKinds
       THEN \* except httpx.HTTPError: print, return []
            /\ outcome' = "returned"
            /\ error' = ""
            /\ papers' = <<>>
            /\ logged' = 1
       ELSE IF backend.kind = "bad_json"
       THEN \* response.json() raises json.JSONDecodeError, no httpx.HTTPError
            /\ outcome' = "raised"
            /\ error' = "JSONDecodeError"
            /\ papers' = <<>>
            /\ logged' = 0
       ELSE IF backend.kind = "not_object"
       THEN \* data.get on a value that is no dict, outside the try
            /\ outcome' = "raised"
            /\ error' = "AttributeError"
            /\ papers' = <<>>
            /\ logged' = 0
       ELSE /\ outcome' = "returned"
            /\ error' = ""
            /\ papers' = MapFrom(Results(backend, max_results), 1)
            /\ logged' = SkippedFrom(Results(backend, max_results), 1)
    /\ UNCHANGED <<backend, max_results>>

UnsupportedWrites(op, paper_id, save_path) ==
    /\ call' = [op |-> op, paper_id |-> paper_id, save_path |-> save_path]
    /\ outcome' = "raised"
    /\ error' = "NotImplementedError"
    /\ papers' = <<>>
    /\ requests' = 0
    /\ files' = {save_path}
    /\ logged' = 0
    /\ UNCHANGED <<backend, max_results>>

\* raise NotImplementedError(...)
Unsupported(op, paper_id, save_path) ==
    /\ call' = [op |-> op, paper_id |-> paper_id, save_path |-> save_path]
    /\ outcome' = "raised"
    /\ error' = "NotImplementedError"
    /\ papers' = <<>>
    /\ requests' = 0
    /\ files' = {}
    /\ logged' = 0
    /\ UNCHANGED <<backend, max_results>>

DownloadPdf == \E id \in PaperIds, path \in SavePaths : Unsupported("download_pdf", id, path)

ReadPaper == \E id \in PaperIds, path \in SavePaths : Unsupported("read_paper", id, path)

NextSearch ==
    \/ Search /\ UNCHANGED <<docVars, storeVars, taskVars>>
    \/ DownloadPdf /\ UNCHANGED <<docVars, storeVars, taskVars>>
    \/ ReadPaper /\ UNCHANGED <<docVars, storeVars, taskVars>>

-----------------------------------------------------------------------------
(* DocumentProcessor.process_pdf *)

S_nl == <<"\n">>

\* str.strip(): whitespace removed at both ends
RECURSIVE LStrip(_)
LStrip(s) == IF s # <<>> /\ Head(s) \in {"\n", " "} THEN LStrip(Tail(s)) ELSE s

RECURSIVE RStrip(_)
RStrip(s) ==
    IF s # <<>> /\ s[Len(s)] \in {"\n", " "} THEN RStrip(SubSeq(s, 1, Len(s) - 1)) ELSE s

Strip(s) == LStrip(RStrip(s))

\* for page in reader.pages: text += page.extract_text() + "\n"
RECURSIVE JoinPages(_)
JoinPages(pages) ==
    IF pages = <<>> THEN <<>> ELSE Head(pages).text \o S_nl \o JoinPages(Tail(pages))

\* A page of the fallback reader: its text, or extract_text raises.
Page(text, raises) == [text |-> text, raises |-> raises]

PagePool == {Page(<<"t">>, FALSE), Page(<<>>, FALSE), Page(<<>>, TRUE)}

\* The document Docling converts the file to: the attributes it has and their sizes.
DocAttrs == {"pages", "tables", "figures"}

NoDoc == [attrs |-> {}, text |-> <<>>, n_pages |-> 0, n_tables |-> 0, n_figures |-> 0]

Docs ==
    [attrs : SUBSET DocAttrs, text : {<<>>, <<"#", " ", "T">>},
     n_pages : 0..MaxPages, n_tables : 0..1, n_figures : 0..1]

\* exists: os.path.exists(pdf_path); conversion: what converter.convert and
\* export_to_markdown do; pypdf2: whether `from PyPDF2 import PdfReader` succeeds;
\* reader_raises: whether PdfReader(pdf_path) raises; pages: reader.pages.
Pdf(exists, conversion, doc, pypdf2, reader_raises, pages) ==
    [exists |-> exists, conversion |-> conversion, doc |-> doc, pypdf2 |-> pypdf2,
     reader_raises |-> reader_raises, pages |-> pages]

Pdfs ==
    {Pdf(FALSE, "ok", NoDoc, TRUE, FALSE, <<>>)}
    \cup {Pdf(TRUE, "ok", d, TRUE, FALSE, <<>>) : d \in Docs}
    \cup {Pdf(TRUE, c, NoDoc, FALSE, FALSE, <<>>) : c \in {"convert_raises", "export_raises"}}
    \cup {Pdf(TRUE, c, NoDoc, TRUE, TRUE, <<>>) : c \in {"convert_raises", "export_raises"}}
    \cup {Pdf(TRUE, c, NoDoc, TRUE, FALSE, ps) :
            c \in {"convert_raises", "export_raises"}, ps \in SeqsUpTo(PagePool, MaxPages)}

\* The dictionary process_pdf returns; has_metadata is FALSE for 'metadata': {}
\* (and 'structure': {}), error is the 'error' key ("" when absent).
DocResult(format, text, method, has_metadata, num_pages, has_tables, has_figures, err) ==
    [format |-> format, text |-> text, extraction_method |-> method,
     has_metadata |-> has_metadata, num_pages |-> num_pages,
     has_tables |-> has_tables, has_figures |-> has_figures, error |-> err]

NoResult == DocResult("", <<>>, "", FALSE, 0, FALSE, FALSE, "")

InitDoc ==
    /\ pdf \in Pdfs
    /\ doc_call = "none"
    /\ doc_outcome = "none"
    /\ doc_error = ""
    /\ doc_result = NoResult

DocIdle ==
    /\ pdf = Pdf(FALSE, "ok", NoDoc, TRUE, FALSE, <<>>)
    /\ doc_call = "none"
    /\ doc_outcome = "none"
    /\ doc_error = ""
    /\ doc_result = NoResult

\* The try block of process_pdf when the conversion succeeds.
RichResult(d) ==
    DocResult("markdown", d.text, "", TRUE,
              IF "pages" \in d.attrs THEN d.n_pages ELSE 0,
              IF "tables" \in d.attrs THEN d.n_tables > 0 ELSE FALSE,
              IF "figures" \in d.attrs THEN d.n_figures > 0 ELSE FALSE,
              "")

\* _fallback_extraction: the import is outside its try block.
FallbackExtraction ==
    IF ~pdf.pypdf2
    THEN /\ doc_outcome' = "raised"
         /\ doc_error' = "ImportError"
         /\ doc_result' = NoResult
    ELSE IF pdf.reader_raises \/ \E k \in 1..Len(pdf.pages) : pdf.pages[k].raises
    THEN /\ doc_outcome' = "returned"
         /\ doc_error' = ""
         /\ doc_result' = DocResult("error", <<>>, "", FALSE, 0, FALSE, FALSE, "str(e)")
    ELSE /\ doc_outcome' = "returned"
         /\ doc_error' = ""
         /\ doc_result' = DocResult("plain_text", Strip(JoinPages(pdf.pages)), "fallback",
                                    TRUE, Len(pdf.pages), FALSE, FALSE, "")

ProcessPdf ==
    /\ doc_call' = "process_pdf"
    /\ IF ~pdf.exists
       THEN /\ doc_outcome' = "raised"
            /\ doc_error' = "FileNotFoundError"
            /\ doc_result' = NoResult
       ELSE IF pdf.conversion = "ok"
       THEN /\ doc_outcome' = "returned"
            /\ doc_error' = ""
            /\ doc_result' = RichResult(pdf.doc)
       ELSE FallbackExtraction
    /\ UNCHANGED pdf

NextDoc == ProcessPdf /\ UNCHANGED <<searchVars, storeVars, taskVars>>

-----------------------------------------------------------------------------
(* KnowledgeStore.  The SurrealDB server is modelled by its three tables and
   by what the statements the store sends say; it outlives every connection.
   Record ids are generated by the server and unique in their table: the n-th
   concept gets id n, and the one row table paper can hold for a paper_id
   (paper_id_idx is UNIQUE) gets the position of that paper_id in PaperSeq. *)

PaperKeys == {"p1", "p2", "p3"}
PaperSeq == <<"p1", "p2", "p3">>
ConceptNames == {"c1", "c2"}
ConceptSeq == <<"c1", "c2">>
Descriptions == {"d1", "d2"}
StrengthSeq == <<1>>
Strengths == {StrengthSeq[k] : k \in 1..Len(StrengthSeq)}
PaperRecs == 1..Cardinality(PaperKeys)

RecId(tb, n) == [tb |-> tb, n |-> n]
NoId == RecId("", 0)
PaperRecOf(key) == RecId("paper", CHOOSE n \in 1..Len(PaperSeq) : PaperSeq[n] = key)

\* datetime.utcnow().isoformat(): no claim compares two readings of the clock
Now == "now"

\* A paper-shaped mapping: keys is the set of keys it has.
Dict(keys, paper_id, title, stored_at) ==
    [keys |-> keys, paper_id |-> paper_id, title |-> title, stored_at |-> stored_at]

NoDict == Dict({}, "", "", "")

PaperDicts ==
    {Dict({"paper_id", "title"}, k, "T", "") : k \in PaperKeys}
    \cup {Dict({"paper_id", "title", "stored_at"}, k, "T", "old") : k \in PaperKeys}

\* paper_data['stored_at'] = ...
SetStoredAt(d, t) == [d EXCEPT !.keys = @ \cup {"stored_at"}, !.stored_at = t]

\* A row of table paper.
PaperRow(id, paper_id, title, stored_at) ==
    [id |-> id, paper_id |-> paper_id, title |-> title, stored_at |-> stored_at]

\* A row of get_similar_papers: SELECT id, paper_id, title, COUNT() AS shared_concepts
SimilarRow(id, paper_id, title, shared_concepts) ==
    [id |-> id, paper_id |-> paper_id, title |-> title, shared_concepts |-> shared_concepts]

KCall(op, name, key, rec, limit) ==
    [op |-> op, name |-> name, key |-> key, rec |-> rec, limit |-> limit]

Returned(id) == [kind |-> "value", id |-> id]
ReturnedNone == [kind |-> "null", id |-> NoId]
Raised == [kind |-> "raised", id |-> NoId]
NoReturn == [kind |-> "none", id |-> NoId]

\* Surreal(url), signin, use, _init_schema, each awaited once
NewHandle == [signins |-> 1, uses |-> 1, schemas |-> 1, closed |-> FALSE]

InitStore ==
    /\ db = 0
    /\ handles = <<>>
    /\ concept_tb = {}
    /\ paper_tb = {}
    /\ relates_to = [e \in PaperRecs \X ConceptNames \X Strengths |-> 0]
    /\ kcall = KCall("none", "", "", 0, 0)
    /\ kret = NoReturn
    /\ ret_rows = <<>>
    /\ arg = NoDict
    /\ arg_before = NoDict
    /\ adds = [c \in ConceptNames |-> 0]
    /\ returned = [c \in ConceptNames |-> {}]

\* connect() without its test of self.db
EnsureConnectedAlways ==
    /\ Len(handles) < MaxHandles
    /\ handles' = Append(handles, NewHandle)
    /\ db' = Len(handles) + 1

\* await self.connect(): if not self.db: ...
EnsureConnected ==
    IF db = 0
    THEN /\ Len(handles) < MaxHandles
         /\ handles' = Append(handles, NewHandle)
         /\ db' = Len(handles) + 1
    ELSE UNCHANGED <<db, handles>>

Connect ==
    /\ EnsureConnected
    /\ kcall' = KCall("connect", "", "", 0, 0)
    /\ kret' = NoReturn
    /\ ret_rows' = <<>>
    /\ UNCHANGED <<concept_tb, paper_tb, relates_to, arg, arg_before, adds, returned>>

Close ==
    /\ IF db # 0
       THEN /\ handles' = [handles EXCEPT ![db].closed = TRUE]
            /\ db' = 0
       ELSE UNCHANGED <<db, handles>>
    /\ kcall' = KCall("close", "", "", 0, 0)
    /\ kret' = NoReturn
    /\ ret_rows' = <<>>
    /\ UNCHANGED <<concept_tb, paper_tb, relates_to, arg, arg_before, adds, returned>>

\* The rows a SELECT ... LIMIT 1 returns.
LimitOne(rows) == IF rows = {} THEN <<>> ELSE <<CHOOSE r \in rows : TRUE>>

StorePaper ==
    \E d \in PaperDicts :
        LET data == SetStoredAt(d, Now)
            row == PaperRow(PaperRecOf(data.paper_id),
                            data.paper_id, data.title, data.stored_at)
        IN  /\ EnsureConnected
            /\ arg_before' = d
            /\ arg' = data
            /\ IF \E r \in paper_tb : r.paper_id = data.paper_id
               THEN \* paper_id_idx is UNIQUE: the create fails
                    /\ kret' = Raised
                    /\ UNCHANGED paper_tb
               ELSE /\ kret' = Returned(row.id)
                    /\ paper_tb' = paper_tb \cup {row}
            /\ kcall' = KCall("store_paper", "", d.paper_id, 0, 0)
            /\ ret_rows' = <<>>
            /\ UNCHANGED <<concept_tb, relates_to, adds, returned>>

GetPaper ==
    \E key \in PaperKeys :
        LET result == LimitOne({r \in paper_tb : r.paper_id = key})
        IN  /\ EnsureConnected
            /\ kcall' = KCall("get_paper", "", key, 0, 0)
            /\ kret' = IF Len(result) > 0 THEN Returned(result[1].id) ELSE ReturnedNone
            /\ ret_rows' = result
            /\ UNCHANGED <<concept_tb, paper_tb, relates_to, arg, arg_before, adds, returned>>

TotalAdds == adds["c1"] + adds["c2"]

\* add_concept without the lookup: always creates
AddConceptEffectNoLookup(name, description, category) ==
    LET new == [id |-> RecId("concept", Cardinality(concept_tb) + 1), name |-> name,
                description |-> description, category |-> category,
                frequency |-> 1, created_at |-> Now]
    IN  /\ concept_tb' = concept_tb \cup {new}
        /\ kret' = Returned(new.id)

\* The body of add_concept after connect(): select, then update or create.
AddConceptEffect(name, description, category) ==
    LET existing == LimitOne({r \in concept_tb : r.name = name})
        new == [id |-> RecId("concept", Cardinality(concept_tb) + 1), name |-> name,
                description |-> description, category |-> category,
                frequency |-> 1, created_at |-> Now]
    IN  IF Len(existing) > 0
        THEN /\ concept_tb' = {IF r.name = name THEN [r EXCEPT !.frequency = @ + 1] ELSE r :
                                r \in concept_tb}
             /\ kret' = Returned(existing[1].id)
        ELSE /\ concept_tb' = concept_tb \cup {new}
             /\ kret' = Returned(new.id)

AddConcept ==
    \E name \in ConceptNames, description \in Descriptions :
        /\ TotalAdds < MaxAdds
        /\ EnsureConnected
        /\ AddConceptEffect(name, description, "general")
        /\ kcall' = KCall("add_concept", name, "", 0, 0)
        /\ ret_rows' = <<>>
        /\ adds' = [adds EXCEPT ![name] = @ + 1]
        /\ returned' = [returned EXCEPT ![name] = @ \cup {kret'.id}]
        /\ UNCHANGED <<paper_tb, relates_to, arg, arg_before>>

RECURSIVE SumOver(_, _)
SumOver(f, keys) == IF keys = <<>> THEN 0 ELSE f[Head(keys)] + SumOver(f, Tail(keys))

\* RELATE statements executed for paper_id rec and concept_name name, whatever
\* their strength.
Edges(rec, name) ==
    SumOver([k \in 1..Len(StrengthSeq) |-> relates_to[<<rec, name, StrengthSeq[k]>>]],
            [k \in 1..Len(StrengthSeq) |-> k])

TotalEdges ==
    SumOver([k \in 1..Len(ConceptSeq) |->
                SumOver([r \in PaperRecs |-> Edges(r, ConceptSeq[k])],
                        [r \in PaperRecs |-> r])],
            [k \in 1..Len(ConceptSeq) |-> k])

\* The RELATE statement is sent with paper_id, concept_name and strength bound,
\* whether or not a paper with that record id was stored, and one record of
\* relates_to is made.  Which record the target written in the statement
\* denotes is the server's reading of it: relates_to keeps the parameters.
RelatePaperToConcept ==
    \E rec \in PaperRecs, name \in ConceptNames, strength \in Strengths :
        /\ TotalEdges < MaxEdges
        /\ EnsureConnected
        /\ relates_to' = [relates_to EXCEPT ![<<rec, name, strength>>] = @ + 1]
        /\ kcall' = KCall("relate_paper_to_concept", name, "", rec, 0)
        /\ kret' = Returned(RecId("relates_to", TotalEdges + 1))
        /\ ret_rows' = <<>>
        /\ UNCHANGED <<concept_tb, paper_tb, arg, arg_before, adds, returned>>

\* What the server answers to the query of get_similar_papers.  The method
\* sends the query text with paper_id and limit bound and hands the answer
\* on; it does not filter, sort or cut it.  The answer is the server's: None,
\* no row, or some rows.
Answer(none, rows) == [none |-> none, rows |-> rows]

AnswerRows == <<SimilarRow(PaperRecOf(PaperSeq[2]), PaperSeq[2], "T", 2),
                SimilarRow(PaperRecOf(PaperSeq[1]), PaperSeq[1], "T", 1)>>

Answers ==
    {Answer(TRUE, <<>>)}
    \cup {Answer(FALSE, SubSeq(AnswerRows, 1, n)) : n \in 0..Len(AnswerRows)}

\* return result if result else []
OrEmpty(result) == IF result.none \/ result.rows = <<>> THEN <<>> ELSE result.rows

GetSimilarPapers ==
    \E origin \in PaperRecs, limit \in 0..MaxLimit, result \in Answers :
        /\ EnsureConnected
        /\ kcall' = KCall("get_similar_papers", "", "", origin, limit)
        /\ kret' = NoReturn
        /\ ret_rows' = OrEmpty(result)
        /\ UNCHANGED <<concept_tb, paper_tb, relates_to, arg, arg_before, adds, returned>>

NextStore ==
    \/ Connect /\ UNCHANGED <<searchVars, docVars, taskVars>>
    \/ Close /\ UNCHANGED <<searchVars, docVars, taskVars>>
    \/ AddConcept /\ UNCHANGED <<searchVars, docVars, taskVars>>
    \/ StorePaper /\ UNCHANGED <<searchVars, docVars, taskVars>>
    \/ GetPaper /\ UNCHANGED <<searchVars, docVars, taskVars>>

NextGraph ==
    \/ StorePaper /\ UNCHANGED <<searchVars, docVars, taskVars>>
    \/ RelatePaperToConcept /\ UNCHANGED <<searchVars, docVars, taskVars>>
    \/ GetSimilarPapers /\ UNCHANGED <<searchVars, docVars, taskVars>>

-----------------------------------------------------------------------------
(* The knowledge store used by two callers at once.  Its methods are         *)
(* coroutines: a caller runs from one await to the next without              *)
(* interruption, and while it waits the other caller may run.  Each action   *)
(* below is the code one caller runs between two awaits; self.db is read     *)
(* anew by every self.db.<call>(...) expression.  The backend answers every  *)
(* call; what a statement does to the tables is done when it completes.      *)
(* What the reading methods return is not recorded, so the arguments that    *)
(* only select rows are left out.                                            *)

Callers == {1, 2}

Other(c) == CHOOSE d \in Callers : d # c

\* Surreal(self.url): a handle on which nothing has been awaited yet
FreshHandle == [signins |-> 0, uses |-> 0, schemas |-> 0, closed |-> FALSE]

\* signin, use and _init_schema have all completed on the handle
Initialised(h) == h.signins >= 1 /\ h.uses >= 1 /\ h.schemas >= 1

\* The arguments of a writing method: paper_data, or the concept name and
\* the paper's record id.
Args(dict, name, rec) == [dict |-> dict, name |-> name, rec |-> rec]

NoArgs == Args(NoDict, "", 0)

\* A caller's coroutine: the method, the await it is suspended at, the handle
\* the awaited call was made on, the calls of the same kind still to make,
\* the exception it ended with, whether the other caller ran a method while
\* this one was in progress, its arguments, and the row add_concept found.
Task(op, pc, on, left, err, overlapped) ==
    [op |-> op, pc |-> pc, on |-> on, left |-> left, error |-> err,
     overlapped |-> overlapped, args |-> NoArgs, found |-> NoId]

NoTask == Task("none", "idle", 0, 0, "", FALSE)

\* The method returned, or raised err.
Done(t, err) ==
    [t EXCEPT !.pc = "idle", !.on = 0, !.left = 0, !.error = err,
              !.args = NoArgs, !.found = NoId]

\* The awaits inside connect()
ConnectPcs == {"signin", "use", "schema"}

\* The methods that start with await self.connect(), and connect() itself
ConnectingOps ==
    {"connect", "store_paper", "get_paper", "search_papers", "add_concept",
     "relate_paper_to_concept", "get_related_concepts", "get_similar_papers",
     "get_knowledge_stats"}

\* The statements a method awaits on self.db after connect() returned
Queries(op) ==
    CASE op = "get_knowledge_stats" -> 3
      [] op = "add_concept" -> 2
      [] op \in {"store_paper", "get_paper", "search_papers", "relate_paper_to_concept",
                 "get_related_concepts", "get_similar_papers"} -> 1
      [] OTHER -> 0

\* The arguments the two callers pass to the writing methods
RaceDicts == {d \in PaperDicts : d.paper_id = PaperSeq[1]}
RaceNames == {ConceptSeq[1]}
RaceRecs == {PaperRecOf(PaperSeq[1]).n}

Inputs(op) ==
    CASE op = "store_paper" -> {Args(d, "", 0) : d \in RaceDicts}
      [] op = "add_concept" -> {Args(NoDict, name, 0) : name \in RaceNames}
      [] op = "relate_paper_to_concept" ->
            {Args(NoDict, name, rec) : name \in RaceNames, rec \in RaceRecs}
      [] OTHER -> {NoArgs}

\* The tables _init_schema defines, one awaited query each
Defines == <<"paper", "concept", "relates_to">>

NoQuery ==
    [by |-> 0, op |-> "none", handle |-> 0, state |-> FreshHandle,
     connecting |-> FALSE, overlapped |-> FALSE]

\* A statement of a data operation (self.db.query or self.db.create), made by
\* caller c while self.db is d (0 for None) and the handles are hs.
Query(c, t, d, hs) ==
    [by |-> c, op |-> t.op, handle |-> d,
     state |-> IF d = 0 THEN FreshHandle ELSE hs[d],
     connecting |-> d # 0 /\ task[Other(c)].pc \in ConnectPcs /\ task[Other(c)].on = d,
     overlapped |-> t.overlapped]

\* self.db.<call>(...): on None the attribute lookup raises, otherwise the
\* call is made on the handle and awaited.
CallOn(t, d, pc, left) ==
    IF d = 0
    THEN Done(t, "AttributeError")
    ELSE [t EXCEPT !.pc = pc, !.on = d, !.left = left]

\* connect() returned: the method goes on to its first statement, if any.
AfterConnect(t, d) ==
    IF Queries(t.op) = 0
    THEN Done(t, "")
    ELSE CallOn(t, d, "query", Queries(t.op) - 1)

\* What the method does, besides going on as AfterConnect, once connect()
\* returned with the handles hs: store_paper stamps the caller's mapping,
\* and the first statement goes out.
ConnectReturned(c, t, hs) ==
    /\ issued' = IF Queries(t.op) > 0 THEN Query(c, t, db, hs) ELSE issued
    /\ IF t.op = "store_paper"
       THEN /\ arg_before' = t.args.dict
            /\ arg' = SetStoredAt(t.args.dict, Now)
       ELSE UNCHANGED <<arg, arg_before>>

TasksIdle ==
    /\ task = [c \in Callers |-> NoTask]
    /\ issued = NoQuery
    /\ ncalls = 0

\* Caller c goes on as t; a method the other caller has in progress has now
\* been overlapped.
Started(c, t) ==
    [x \in Callers |->
        IF x = c THEN t
        ELSE [task[x] EXCEPT !.overlapped = @ \/ task[x].pc # "idle"]]

\* relate_paper_to_concept calls in progress
Relating == Cardinality({x \in Callers : task[x].op = "relate_paper_to_concept"
                                         /\ task[x].pc # "idle"})

\* A method that awaits self.connect() is called: up to its first await.
Begin(c) ==
    /\ task[c].pc = "idle"
    /\ ncalls < MaxCalls
    /\ ncalls' = ncalls + 1
    /\ \E op \in ConnectingOps :
        \E a \in Inputs(op) :
            LET t == [Task(op, "idle", 0, 0, "", task[Other(c)].pc # "idle")
                        EXCEPT !.args = a]
            IN  /\ op = "add_concept" => TotalAdds < MaxAdds
                /\ op = "relate_paper_to_concept" => TotalEdges + Relating < MaxEdges
                /\ adds' = IF op = "add_concept"
                           THEN [adds EXCEPT ![a.name] = @ + 1]
                           ELSE adds
                /\ IF db = 0
                   THEN \* self.db = Surreal(self.url); await self.db.signin(...)
                        /\ Len(handles) < MaxHandles
                        /\ handles' = Append(handles, FreshHandle)
                        /\ db' = Len(handles) + 1
                        /\ task' = Started(c, CallOn(t, Len(handles) + 1, "signin", 0))
                        /\ UNCHANGED <<issued, arg, arg_before>>
                   ELSE \* connect() returns without awaiting anything
                        /\ task' = Started(c, AfterConnect(t, db))
                        /\ ConnectReturned(c, t, handles)
                        /\ UNCHANGED <<db, handles>>
    /\ UNCHANGED <<concept_tb, paper_tb, relates_to, returned>>

\* signin completed; await self.db.use(...)
SigninDone(c) ==
    /\ task[c].pc = "signin"
    /\ handles' = [handles EXCEPT ![task[c].on].signins = @ + 1]
    /\ task' = [task EXCEPT ![c] = CallOn(@, db, "use", 0)]
    /\ UNCHANGED <<db, issued, ncalls, dataVars>>

\* use completed and connect() returns here, without _init_schema
UseDoneSkipsSchema(c) ==
    /\ task[c].pc = "use"
    /\ handles' = [handles EXCEPT ![task[c].on].uses = @ + 1]
    /\ task' = [task EXCEPT ![c] = AfterConnect(@, db)]
    /\ ConnectReturned(c, task[c], handles')
    /\ UNCHANGED <<db, ncalls, concept_tb, paper_tb, relates_to, adds, returned>>

\* use completed; await self._init_schema(), up to its first DEFINE query
UseDone(c) ==
    /\ task[c].pc = "use"
    /\ handles' = [handles EXCEPT ![task[c].on].uses = @ + 1]
    /\ task' = [task EXCEPT ![c] = CallOn(@, db, "schema", Len(Defines) - 1)]
    /\ UNCHANGED <<db, issued, ncalls, dataVars>>

\* A DEFINE query completed: the next one is made, or _init_schema and
\* connect() return and the method makes its first statement.
DefineDone(c) ==
    /\ task[c].pc = "schema"
    /\ IF task[c].left > 0
       THEN /\ task' = [task EXCEPT ![c] = CallOn(@, db, "schema", @.left - 1)]
            /\ UNCHANGED <<handles, issued, arg, arg_before>>
       ELSE /\ handles' = [handles EXCEPT ![task[c].on].schemas = @ + 1]
            /\ task' = [task EXCEPT ![c] = AfterConnect(@, db)]
            /\ ConnectReturned(c, task[c], handles')
    /\ UNCHANGED <<db, ncalls, concept_tb, paper_tb, relates_to, adds, returned>>

\* self.db.create('paper', paper_data) completed: paper_id_idx is UNIQUE.
CreatePaperDone(c, t) ==
    LET data == SetStoredAt(t.args.dict, Now)
        row == PaperRow(PaperRecOf(data.paper_id),
                        data.paper_id, data.title, data.stored_at)
    IN  /\ IF \E r \in paper_tb : r.paper_id = data.paper_id
           THEN /\ task' = [task EXCEPT ![c] = Done(t, "UniqueIndex")]
                /\ UNCHANGED paper_tb
           ELSE /\ task' = [task EXCEPT ![c] = Done(t, "")]
                /\ paper_tb' = paper_tb \cup {row}
        /\ UNCHANGED <<concept_tb, relates_to, returned, issued>>

\* RELATE ... completed: one more record of relates_to.
RelateDone(c, t) ==
    /\ relates_to' = [relates_to EXCEPT ![<<t.args.rec, t.args.name, StrengthSeq[1]>>] = @ + 1]
    /\ task' = [task EXCEPT ![c] = Done(t, "")]
    /\ UNCHANGED <<concept_tb, paper_tb, returned, issued>>

\* add_concept's SELECT completed: the UPDATE or the create is made next.
ConceptSelected(c, t) ==
    LET existing == LimitOne({r \in concept_tb : r.name = t.args.name})
        found == IF Len(existing) > 0 THEN existing[1].id ELSE NoId
    IN  /\ task' = [task EXCEPT ![c] = CallOn([t EXCEPT !.found = found], db, "query", 0)]
        /\ issued' = Query(c, t, db, handles)
        /\ UNCHANGED <<concept_tb, paper_tb, relates_to, returned>>

\* add_concept's UPDATE or create completed: concept_name_idx is UNIQUE.
ConceptWritten(c, t) ==
    LET new == [id |-> RecId("concept", Cardinality(concept_tb) + 1),
                name |-> t.args.name, description |-> "d1", category |-> "general",
                frequency |-> 1, created_at |-> Now]
    IN  /\ IF t.found # NoId
           THEN /\ concept_tb' = {IF r.name = t.args.name
                                  THEN [r EXCEPT !.frequency = @ + 1]
                                  ELSE r : r \in concept_tb}
                /\ returned' = [returned EXCEPT ![t.args.name] = @ \cup {t.found}]
                /\ task' = [task EXCEPT ![c] = Done(t, "")]
           ELSE IF \E r \in concept_tb : r.name = t.args.name
                THEN /\ task' = [task EXCEPT ![c] = Done(t, "UniqueIndex")]
                     /\ UNCHANGED <<concept_tb, returned>>
                ELSE /\ concept_tb' = concept_tb \cup {new}
                     /\ returned' = [returned EXCEPT ![t.args.name] = @ \cup {new.id}]
                     /\ task' = [task EXCEPT ![c] = Done(t, "")]
        /\ UNCHANGED <<paper_tb, relates_to, issued>>

\* A SELECT of a reading method completed: the next one is made, or the
\* method returns.
SelectDone(c, t) ==
    /\ IF t.left > 0
       THEN /\ task' = [task EXCEPT ![c] = CallOn(t, db, "query", t.left - 1)]
            /\ issued' = Query(c, t, db, handles)
       ELSE /\ task' = [task EXCEPT ![c] = Done(t, "")]
            /\ UNCHANGED issued
    /\ UNCHANGED <<concept_tb, paper_tb, relates_to, returned>>

\* A statement of a data operation completed.
QueryDone(c) ==
    /\ task[c].pc = "query"
    /\ CASE task[c].op = "store_paper" -> CreatePaperDone(c, task[c])
         [] task[c].op = "relate_paper_to_concept" -> RelateDone(c, task[c])
         [] task[c].op = "add_concept" /\ task[c].left > 0 -> ConceptSelected(c, task[c])
         [] task[c].op = "add_concept" /\ task[c].left = 0 -> ConceptWritten(c, task[c])
         [] OTHER -> SelectDone(c, task[c])
    /\ UNCHANGED <<db, handles, ncalls, adds, arg, arg_before>>

\* close() is called: if self.db: await self.db.close().  The handle is
\* released by the call; the caller resumes in CloseDone.
BeginClose(c) ==
    /\ task[c].pc = "idle"
    /\ ncalls < MaxCalls
    /\ ncalls' = ncalls + 1
    /\ LET t == Task("close", "idle", 0, 0, "", task[Other(c)].pc # "idle")
       IN  IF db # 0
           THEN /\ handles' = [handles EXCEPT ![db].closed = TRUE]
                /\ task' = Started(c, CallOn(t, db, "closing", 0))
           ELSE /\ task' = Started(c, Done(t, ""))
                /\ UNCHANGED handles
    /\ UNCHANGED <<db, issued, dataVars>>

\* self.db.close() completed; self.db = None
CloseDone(c) ==
    /\ task[c].pc = "closing"
    /\ db' = 0
    /\ task' = [task EXCEPT ![c] = Done(@, "")]
    /\ UNCHANGED <<handles, issued, ncalls, dataVars>>

NextRace ==
    \E c \in Callers :
        \/ Begin(c) /\ UNCHANGED <<searchVars, docVars, callVars>>
        \/ SigninDone(c) /\ UNCHANGED <<searchVars, docVars, callVars>>
        \/ UseDone(c) /\ UNCHANGED <<searchVars, docVars, callVars>>
        \/ DefineDone(c) /\ UNCHANGED <<searchVars, docVars, callVars>>
        \/ QueryDone(c) /\ UNCHANGED <<searchVars, docVars, callVars>>
        \/ BeginClose(c) /\ UNCHANGED <<searchVars, docVars, callVars>>
        \/ CloseDone(c) /\ UNCHANGED <<searchVars, docVars, callVars>>

-----------------------------------------------------------------------------
(* The knowledge store used by one caller, one call after the other, with a  *)
(* backend whose sign-in, namespace selection or schema provisioning may     *)
(* raise.  connect() catches nothing: the exception ends the method called.  *)

\* Where connect() raises: nowhere, or in the await of that name.  With
\* self.db set it awaits nothing.
FailPoints == IF db = 0 THEN {"none", "signin", "use", "schema"} ELSE {"none"}

\* The handle connect() leaves in self.db when it raises at fail.
HandleAfter(fail) ==
    CASE fail = "signin" -> FreshHandle
      [] fail = "use" -> [FreshHandle EXCEPT !.signins = 1]
      [] fail = "schema" -> [FreshHandle EXCEPT !.signins = 1, !.uses = 1]
      [] OTHER -> NewHandle

\* await self.connect(), raising at fail if it gets there
TryConnect(fail) ==
    IF db = 0
    THEN /\ Len(handles) < MaxHandles
         /\ handles' = Append(handles, HandleAfter(fail))
         /\ db' = Len(handles) + 1
    ELSE UNCHANGED <<db, handles>>

\* connect() raised: self.db was None and one of its awaits failed.
ConnectRaises(fail) == db = 0 /\ fail # "none"

\* The sole caller's data query, on self.db as connect() left it.
SerialQuery(op) == Query(1, Task(op, "idle", 0, 0, "", FALSE), db', handles')

\* The handle self.db holds once connect() returned.
HandleLeft(fail) == IF db = 0 THEN HandleAfter(fail) ELSE handles[db]

\* What the backend does with a query on a handle that is not signed in, has
\* no namespace or no schema depends on the server: it may serve or reject it.
Serves(fail) == IF Initialised(HandleLeft(fail)) THEN {TRUE} ELSE BOOLEAN

ConnectOrFail ==
    \E fail \in FailPoints :
        /\ TryConnect(fail)
        /\ kcall' = KCall("connect", "", "", 0, 0)
        /\ kret' = IF ConnectRaises(fail) THEN Raised ELSE NoReturn
        /\ ret_rows' = <<>>
        /\ UNCHANGED <<concept_tb, paper_tb, relates_to, arg, arg_before, adds,
                       returned, issued>>

GetPaperOrFail ==
    \E key \in PaperKeys, fail \in FailPoints : \E ok \in Serves(fail) :
        LET result == LimitOne({r \in paper_tb : r.paper_id = key})
        IN  /\ TryConnect(fail)
            /\ kcall' = KCall("get_paper", "", key, 0, 0)
            /\ IF ConnectRaises(fail)
               THEN /\ kret' = Raised
                    /\ ret_rows' = <<>>
                    /\ UNCHANGED issued
               ELSE /\ issued' = SerialQuery("get_paper")
                    /\ IF ok
                       THEN /\ kret' = IF Len(result) > 0
                                       THEN Returned(result[1].id)
                                       ELSE ReturnedNone
                            /\ ret_rows' = result
                       ELSE /\ kret' = Raised
                            /\ ret_rows' = <<>>
            /\ UNCHANGED <<concept_tb, paper_tb, relates_to, arg, arg_before, adds,
                           returned>>

StorePaperOrFail ==
    \E d \in PaperDicts, fail \in FailPoints : \E ok \in Serves(fail) :
        LET data == SetStoredAt(d, Now)
            row == PaperRow(PaperRecOf(data.paper_id),
                            data.paper_id, data.title, data.stored_at)
        IN  /\ TryConnect(fail)
            /\ kcall' = KCall("store_paper", "", d.paper_id, 0, 0)
            /\ ret_rows' = <<>>
            /\ IF ConnectRaises(fail)
               THEN /\ kret' = Raised
                    /\ UNCHANGED <<paper_tb, arg, arg_before, issued>>
               ELSE /\ arg_before' = d
                    /\ arg' = data
                    /\ issued' = SerialQuery("store_paper")
                    /\ IF ok /\ ~(\E r \in paper_tb : r.paper_id = data.paper_id)
                       THEN /\ kret' = Returned(row.id)
                            /\ paper_tb' = paper_tb \cup {row}
                       ELSE /\ kret' = Raised
                            /\ UNCHANGED paper_tb
            /\ UNCHANGED <<concept_tb, relates_to, adds, returned>>

NextFail ==
    \/ ConnectOrFail /\ UNCHANGED <<searchVars, docVars, task, ncalls>>
    \/ GetPaperOrFail /\ UNCHANGED <<searchVars, docVars, task, ncalls>>
    \/ StorePaperOrFail /\ UNCHANGED <<searchVars, docVars, task, ncalls>>
    \/ Close /\ UNCHANGED <<searchVars, docVars, taskVars>>

-----------------------------------------------------------------------------
(* Specifications: one per component, the others idle *)

SearchIdle ==
    /\ backend = Response("ok", FALSE, <<>>)
    /\ max_results = 0
    /\ call = NoCall
    /\ outcome = "none"
    /\ error = ""
    /\ papers = <<>>
    /\ requests = 0
    /\ files = {}
    /\ logged = 0

StartSearch == InitSearch /\ DocIdle /\ InitStore /\ TasksIdle

SpecSearch == StartSearch /\ [][NextSearch]_vars

StartDoc == InitDoc /\ SearchIdle /\ InitStore /\ TasksIdle

SpecDoc == StartDoc /\ [][NextDoc]_vars

StartStore == InitStore /\ TasksIdle /\ SearchIdle /\ DocIdle

SpecStore == StartStore /\ [][NextStore]_vars

SpecGraph == StartStore /\ [][NextGraph]_vars

SpecRace == StartStore /\ [][NextRace]_vars

SpecFail == StartStore /\ [][NextFail]_vars

-----------------------------------------------------------------------------
(* Claims about the search adapter *)

\* The `results` array of the backend's answer.
Items == IF backend.has_results THEN backend.results ELSE <<>>

SearchedOk == call.op = "search" /\ backend.kind = "ok"

\* Every key the item has holds a string.
WellFormed(item) ==
    /\ item.obj
    /\ "title" \in item.has => item.title.t = "str"
    /\ "url" \in item.has => item.url.t = "str"
    /\ "content" \in item.has => item.content.t = "str"
    /\ "author" \in item.has => item.author.t = "str"

\* Paper p carries the position, url and title of item.
BuiltFrom(p, item, idx) ==
    /\ p.paper_id.idx = idx
    /\ p.source = "searxng"
    /\ p.url = (IF "url" \in item.has THEN item.url.s ELSE <<>>)
    /\ p.title = (IF "title" \in item.has THEN item.title ELSE Str(S_Untitled))

\* C1: for a well-formed answer of N items and max_results >= 0, search
\* returns exactly min(N, max_results) Papers, the i-th built from the i-th
\* item of the backend.
C1_PrefixInOrder ==
    (SearchedOk /\ max_results >= 0
        /\ \A i \in 1..Len(Items) : WellFormed(Items[i]))
    => /\ outcome = "returned"
       /\ Len(papers) = Min(Len(Items), max_results)
       /\ \A i \in 1..Len(papers) : BuiltFrom(papers[i], Items[i], i - 1)

C1_Witness ==
    /\ SearchedOk /\ outcome = "returned"
    /\ Len(Items) = 3 /\ max_results = 2 /\ Len(papers) = 2
    /\ \A i \in 1..3 : WellFormed(Items[i])
    /\ Items[1] # Items[2] /\ Items[2] # Items[3]

\* C2: when the backend fails (connection, timeout, HTTP status, or a body
\* that is not the expected JSON object), search returns [] and never raises.
C2_FailureReturnsEmpty ==
    (call.op = "search" /\ backend.kind \in HTTPErrorKinds \cup UndecodableKinds)
    => (outcome = "returned" /\ papers = <<>>)

\* The items the claim calls malformed: no object, or an object with no key.
MissingAllFields(item) == ~item.obj \/ item.has = {}

\* The items whose mapping raises.
Unmappable(item) ==
    \/ ~item.obj
    \/ "url" \in item.has /\ item.url.t # "str"
    \/ "content" \in item.has /\ item.content.t = "num" /\ item.content.n # 0

\* C3 as stated: one item missing all fields among well-formed ones makes
\* search return one Paper fewer than there are items.
C3_MissingFieldsOmitted ==
    (SearchedOk /\ max_results >= Len(Items)
        /\ \E j \in 1..Len(Items) :
              /\ MissingAllFields(Items[j])
              /\ \A i \in 1..Len(Items) \ {j} :
                    WellFormed(Items[i]) /\ Items[i].has # {})
    => (outcome = "returned" /\ Len(papers) = Len(Items) - 1)

\* C3 amended: one item whose mapping raises (no JSON object, a url that is
\* no string, a non-zero number as content) among the first max_results
\* items, the others well-formed, is the only one omitted: the items before
\* and after it are returned in order.  An object with no keys is mapped.
C3_OnlyUnmappableOmitted ==
    LET kept == SubSeq(Items, 1, Min(Len(Items), max_results))
    IN  (SearchedOk /\ max_results >= 0)
        => /\ \A j \in 1..Len(kept) :
                (Unmappable(kept[j])
                    /\ \A i \in 1..Len(kept) \ {j} : WellFormed(kept[i]))
                => /\ outcome = "returned"
                   /\ Len(papers) = Len(kept) - 1
                   /\ \A i \in 1..(j - 1) : BuiltFrom(papers[i], kept[i], i - 1)
                   /\ \A i \in (j + 1)..Len(kept) :
                        BuiltFrom(papers[i - 1], kept[i], i - 1)
           /\ \A j \in 1..Len(kept) :
                (kept[j] = EmptyItem
                    /\ \A i \in 1..Len(kept) \ {j} : WellFormed(kept[i]))
                => /\ Len(papers) = Len(kept)
                   /\ papers[j].title = Str(S_Untitled)
                   /\ papers[j].url = <<>>
                   /\ papers[j].abstract = <<>>
                   /\ papers[j].pdf_url = <<>>

C3_Witness ==
    /\ SearchedOk /\ outcome = "returned" /\ max_results = 3
    /\ Len(Items) = 3 /\ Len(papers) = 2
    /\ WellFormed(Items[1]) /\ Unmappable(Items[2]) /\ WellFormed(Items[3])
    /\ Items[2].obj
    /\ papers[2].paper_id.idx = 2

\* 'pdf' in url.lower() or 'arxiv.org' in url, character by character
LooksLikePdf(u) ==
    \/ \E k \in 1..(Len(u) - 2) :
          /\ u[k] \in {"p", "P"} /\ u[k + 1] \in {"d", "D"} /\ u[k + 2] \in {"f", "F"}
    \/ \E k \in 0..(Len(u) - 9) : \A j \in 1..9 : u[k + j] = S_arxiv[j]

\* C9: the abstract of every Paper is the item's content cut to 500
\* characters (empty without content), and pdf_url is the url when the url
\* contains 'pdf' in any case or 'arxiv.org', the empty string otherwise.
C9_AbstractAndPdfUrl ==
    (SearchedOk /\ outcome = "returned")
    => \A i \in 1..Len(papers) :
         LET p == papers[i]
             item == Items[p.paper_id.idx + 1]
             c == item.content
         IN  /\ Len(p.abstract) <= AbstractLimit
             /\ IF "content" \in item.has /\ c.t = "str"
                THEN /\ Len(p.abstract) = Min(Len(c.s), AbstractLimit)
                     /\ \A k \in 1..Len(p.abstract) : p.abstract[k] = c.s[k]
                ELSE p.abstract = <<>>
             /\ p.url = (IF "url" \in item.has THEN item.url.s ELSE <<>>)
             /\ p.pdf_url = (IF LooksLikePdf(p.url) THEN p.url ELSE <<>>)

C9_Witness ==
    /\ SearchedOk /\ outcome = "returned" /\ Len(papers) = 1
    /\ Len(Items[1].content.s) = AbstractLimit + 100
    /\ Len(papers[1].abstract) = AbstractLimit
    /\ papers[1].pdf_url = S_arxiv

\* C10: download_pdf and read_paper raise NotImplementedError for every
\* paper_id and save_path, issue no network request and write no file.
C10_AlwaysUnsupported ==
    call.op \in {"download_pdf", "read_paper"}
    => /\ outcome = "raised"
       /\ error = "NotImplementedError"
       /\ requests = 0
       /\ files = {}

C10_Witness ==
    /\ call.op = "read_paper" /\ call.paper_id = "" /\ call.save_path = "/tmp/out"
    /\ error = "NotImplementedError"

-----------------------------------------------------------------------------
(* Claims about the document processor *)

\* C6: process_pdf raises the not-found error on a path that does not exist;
\* on an existing file it never raises and returns a result whose format is
\* 'markdown', 'plain_text' with extraction_method 'fallback', or 'error'
\* with empty text and an error message.
C6_ExistingNeverRaises ==
    doc_call = "process_pdf"
    => IF ~pdf.exists
       THEN doc_outcome = "raised" /\ doc_error = "FileNotFoundError"
       ELSE /\ doc_outcome = "returned"
            /\ \/ doc_result.format = "markdown"
               \/ doc_result.format = "plain_text"
                  /\ doc_result.extraction_method = "fallback"
               \/ doc_result.format = "error"
                  /\ doc_result.text = <<>> /\ doc_result.error # ""

-----------------------------------------------------------------------------
(* Claims about the knowledge store *)

ConceptRows(name) == {r \in concept_tb : r.name = name}

\* C4: add_concept is an upsert: after any serial sequence of calls there is
\* exactly one concept row per name used, its frequency is the number of
\* add_concept calls made with that name, and every call with that name
\* returned the id of that row.
C4_Upsert ==
    \A name \in ConceptNames :
        /\ Cardinality(ConceptRows(name)) = (IF adds[name] > 0 THEN 1 ELSE 0)
        /\ \A r \in ConceptRows(name) :
             /\ r.frequency = adds[name]
             /\ returned[name] = {r.id}

C4_Witness ==
    /\ kcall.op = "add_concept" /\ kcall.name = "c1"
    /\ adds["c1"] = 2 /\ adds["c2"] = 1
    /\ \E r \in concept_tb : r.name = "c1" /\ r.frequency = 2 /\ kret = Returned(r.id)

Provisioned(h) == h.signins = 1 /\ h.uses = 1 /\ h.schemas = 1

\* In every state: nothing is opened before the first operation; every handle
\* was signed in, given its namespace and provisioned exactly once; self.db is
\* an open handle after every operation but close, and None after close.
C5_Connection ==
    /\ kcall.op = "none" => (db = 0 /\ handles = <<>>)
    /\ \A h \in 1..Len(handles) :
         /\ Provisioned(handles[h])
         /\ handles[h].closed <=> h # db
    /\ kcall.op \notin {"none", "close"} => db # 0
    /\ kcall.op = "close" => db = 0

\* In every step: connect() on a connected store changes no handle, close()
\* on a closed store changes nothing, and an operation on a closed store opens
\* one new handle, provisioned.
C5_Step ==
    /\ (Connect /\ db # 0) => UNCHANGED <<db, handles>>
    /\ (Close /\ db = 0)
        => UNCHANGED <<db, handles, concept_tb, paper_tb, relates_to>>
    /\ (db = 0 /\ (Connect \/ AddConcept \/ StorePaper \/ GetPaper))
        => /\ db' = Len(handles) + 1
           /\ Len(handles') = Len(handles) + 1
           /\ \A h \in 1..Len(handles) : handles'[h] = handles[h]
           /\ Provisioned(handles'[db']) /\ ~handles'[db'].closed

\* C5: the connection is lazy and idempotent: none before the first
\* operation, connect() on a connected store signs in, selects and provisions
\* nothing again, close() on a closed store is a no-op, and after close() the
\* next operation opens a fully provisioned connection.
C5_LazyIdempotent == [](C5_Connection) /\ [][C5_Step]_vars

C5_Witness ==
    /\ kcall.op = "get_paper"
    /\ Len(handles) = 2 /\ db = 2
    /\ handles[1].closed /\ Provisioned(handles[2])

\* C7: store_paper inserts a copy of the caller's mapping with a stored_at
\* timestamp, and leaves the mapping the caller passed as it was.
C7_CallerMappingUnchanged ==
    (kcall.op = "store_paper" /\ kret.kind = "value")
    => /\ \E r \in paper_tb : r.id = kret.id /\ r.stored_at = Now
       /\ arg = arg_before

\* The last data query was made on None, on a released handle, or on one on
\* which signin, use or _init_schema had not completed.
IssuedOnUnready ==
    /\ issued.by # 0
    /\ \/ issued.handle = 0
       \/ issued.state.closed
       \/ ~Initialised(issued.state)

\* C11: the connection handle is not guarded against concurrent
\* connect()/close(): with two callers interleaving at await points, a caller
\* issues a data query on a handle the other caller's connect() is still
\* initialising, or on one the other caller's close() released or set to
\* None (the states C11_Witness and C11_WitnessReleased, both reachable).
\* What holds in every state is the converse bound: a data query reaches an
\* unready handle, and a method ends with AttributeError on None, only when
\* the other caller ran a method while this one was in progress.
C11_UnguardedHandle ==
    /\ IssuedOnUnready => issued.overlapped
    /\ \A c \in Callers : task[c].error = "AttributeError" => task[c].overlapped

\* A data query issued on the handle the other caller's connect() created and
\* is still signing in, selecting the namespace on, or provisioning.
C11_Witness ==
    /\ issued.by # 0
    /\ issued.handle # 0
    /\ ~Initialised(issued.state)
    /\ issued.connecting
    /\ task[Other(issued.by)].op \in ConnectingOps

\* A data query issued after the other caller's close() released the handle,
\* or set self.db to None.
C11_WitnessReleased ==
    /\ issued.by # 0
    /\ task[Other(issued.by)].op = "close"
    /\ \/ issued.handle # 0 /\ issued.state.closed /\ task[Other(issued.by)].pc = "closing"
       \/ issued.handle = 0 /\ task[Other(issued.by)].pc = "idle"

\* C12: under strictly serial use, also after a connect() that raised
\* part-way, a handle that is not None at the start of an operation has
\* completed signin, use and _init_schema, and every data query or create a
\* later operation issues runs on such a handle (a failed connect is run
\* again by the next operation, not skipped).
C12_SerialHandleInitialised ==
    /\ db # 0 => Initialised(handles[db])
    /\ issued.by # 0 => issued.handle # 0 /\ Initialised(issued.state)

====
